---- MODULE Spec2Model ----
(***************************************************************************)
(* A model of certbot_nginx/parser_obj.py: the parse tree built from       *)
(* pyparsing-like raw lists (Sentence, Statements, Block), its dispatcher  *)
(* parse_raw, dump, iterate, get_tabs / set_tabs and the "managed by       *)
(* Certbot" comment predicates.                                            *)
(*                                                                         *)
(* Python values are encoded uniformly.  A Python string is a sequence of  *)
(* one-character strings.  A raw value is a record [k, s, l]: k is "str"   *)
(* (a string, its characters in s), "list" (a list, its elements in l) or  *)
(* "int" (any value that is neither).  A parsed object is a record         *)
(* [t, toks, kids, tw]: t its class, toks a Sentence's _data, kids a       *)
(* Statements' _data or a Block's [names, contents], tw the                *)
(* _trailing_whitespace of a Statements as a sequence of length 0 (None)   *)
(* or 1.                                                                   *)
(***************************************************************************)
EXTENDS Naturals, Sequences, FiniteSets, TLC

VARIABLES orig, raw, add_spaces, hooks, pc, chosen, tree, err, ntabs, tabbed, out

vars == <<orig, raw, add_spaces, hooks, pc, chosen, tree, err, ntabs, tabbed, out>>

----------------------------------------------------------------------------
(* Python strings *)

WhiteChars == {" ", "\n", "\t"}

QuoteChars == {"\"", "'"}

SetMax(S) == CHOOSE m \in S : \A n \in S : n <= m

SetMin(S) == CHOOSE m \in S : \A n \in S : m <= n

\* str.isspace(): at least one character, and all of them whitespace
IsSpace(s) == Len(s) > 0 /\ \A i \in 1..Len(s) : s[i] \in WhiteChars

\* first[first.rfind("\n")+1:]
AfterLastNewline(s) ==
  LET I == {i \in 1..Len(s) : s[i] = "\n"}
      r == IF I = {} THEN 0 ELSE SetMax(I)
  IN SubSeq(s, r + 1, Len(s))

\* word.strip("\"\'")
StripQuotes(s) ==
  LET I == {i \in 1..Len(s) : s[i] \notin QuoteChars}
  IN IF I = {} THEN <<>> ELSE SubSeq(s, SetMin(I), SetMax(I))

SPACE == <<" ">>

NEWLINE == <<"\n">>

FOUR_SPACES == <<" ", " ", " ", " ">>

COMMENT == <<" ", "m", "a", "n", "a", "g", "e", "d", " ", "b", "y", " ",
             "C", "e", "r", "t", "b", "o", "t">>

COMMENT_BLOCK == << <<"#">>, COMMENT >>

----------------------------------------------------------------------------
(* Raw values and parsed objects *)

Str(s) == [k |-> "str", s |-> s, l |-> <<>>]

Lst(l) == [k |-> "list", s |-> <<>>, l |-> l]

Int42 == [k |-> "int", s |-> <<>>, l |-> <<>>]

IsStr(v) == v.k = "str"

IsList(v) == v.k = "list"

NoNode == [t |-> "None", toks |-> <<>>, kids |-> <<>>, tw |-> <<>>]

SentenceNode(toks) == [t |-> "Sentence", toks |-> toks, kids |-> <<>>, tw |-> <<>>]

StatementsNode(kids, tw) == [t |-> "Statements", toks |-> <<>>, kids |-> kids, tw |-> tw]

BlockNode(names, contents) ==
  [t |-> "Block", toks |-> <<>>, kids |-> <<names, contents>>, tw |-> <<>>]

names(b) == b.kids[1]

contents(b) == b.kids[2]

DEFAULT_PARSING_HOOKS == <<"Block", "Sentence", "Statements">>

----------------------------------------------------------------------------
(* should_parse *)

StatementsShouldParse(lists) == IsList(lists)

\* Sentence.should_parse without the test of the elements
SentenceShouldParseAnyList(lists) == IsList(lists) /\ Len(lists.l) > 0

SentenceShouldParse(lists) ==
  /\ IsList(lists)
  /\ Len(lists.l) > 0
  /\ \A i \in 1..Len(lists.l) : IsStr(lists.l[i])

BlockShouldParse(lists) ==
  /\ IsList(lists)
  /\ Len(lists.l) = 2
  /\ SentenceShouldParse(lists.l[1])
  /\ IsList(lists.l[2])

ShouldParse(type_, lists) ==
  CASE type_ = "Block" -> BlockShouldParse(lists)
    [] type_ = "Sentence" -> SentenceShouldParse(lists)
    [] type_ = "Statements" -> StatementsShouldParse(lists)

\* _choose_parser: the first hook whose should_parse is true, "none" when it raises
RECURSIVE ChooseFrom(_, _, _)
ChooseFrom(parsing_hooks, i, list_) ==
  IF i > Len(parsing_hooks) THEN "none"
  ELSE IF ShouldParse(parsing_hooks[i], list_) THEN parsing_hooks[i]
  ELSE ChooseFrom(parsing_hooks, i + 1, list_)

\* A dispatcher that lets a later hook win: the last hook whose should_parse is true
ChooseParserLast(parsing_hooks, list_) ==
  LET matching == {i \in 1..Len(parsing_hooks) : ShouldParse(parsing_hooks[i], list_)}
  IN IF matching = {} THEN "none" ELSE parsing_hooks[SetMax(matching)]

ChooseParser(parsing_hooks, list_) == ChooseFrom(parsing_hooks, 1, list_)

----------------------------------------------------------------------------
(* _space_list *)

\* The elements of a Python list of strings, or the characters of a string
\* (len() and indexing work on both), as raw values.
Items(v) == IF IsStr(v) THEN [i \in 1..Len(v.s) |-> Str(<<v.s[i]>>)] ELSE v.l

\* list_[i].isspace() on a value without that method raises AttributeError; the
\* test runs for i > 0 only and `and` short-circuits.
SpaceListRaises(items) ==
  \E i \in 2..Len(items) :
     \/ ~IsStr(items[i])
     \/ /\ ~IsSpace(items[i].s)
        /\ ~IsStr(items[i-1])

\* for i in reversed(xrange(len(list_))): insert list_[i] at the front, then a
\* " " in front of it when neither it nor its left neighbour is whitespace.
RECURSIVE SpaceListLoop(_, _, _)
SpaceListLoop(items, i, spaced_statement) ==
  IF i = 0 THEN spaced_statement
  ELSE LET withItem == <<items[i]>> \o spaced_statement
           withSpace == IF i > 1 /\ ~IsSpace(items[i].s) /\ ~IsSpace(items[i-1].s)
                        THEN <<Str(SPACE)>> \o withItem
                        ELSE withItem
       IN SpaceListLoop(items, i - 1, withSpace)

\* _space_list that looks at the token only, not at its left neighbour
RECURSIVE SpaceListOneSided(_)
SpaceListOneSided(items) ==
  IF Len(items) <= 1 THEN items
  ELSE SpaceListOneSided(SubSeq(items, 1, Len(items) - 1))
         \o (IF ~IsSpace(items[Len(items)].s) THEN <<Str(SPACE)>> ELSE <<>>)
         \o <<items[Len(items)]>>

SpaceList(items) == SpaceListLoop(items, Len(items), <<>>)

----------------------------------------------------------------------------
(* parse: each returns [err, node, raw], raw being the caller's value as the *)
(* call leaves it                                                            *)

Ok(node, r) == [err |-> "", node |-> node, raw |-> r]

Raise(e, r) == [err |-> e, node |-> NoNode, raw |-> r]

\* The check of Sentence.parse after the spacing step
SentenceStore(parse_this, caller) ==
  IF ~IsList(parse_this) \/ \E i \in 1..Len(parse_this.l) : ~IsStr(parse_this.l[i])
  THEN Raise("MisconfigurationError", caller)
  ELSE Ok(SentenceNode([i \in 1..Len(parse_this.l) |-> parse_this.l[i].s]), caller)

SentenceParse(parse_this, spaces) ==
  IF spaces
  THEN IF ~IsList(parse_this) /\ ~IsStr(parse_this) THEN Raise("TypeError", parse_this)
       ELSE IF SpaceListRaises(Items(parse_this)) THEN Raise("AttributeError", parse_this)
       ELSE SentenceStore(Lst(SpaceList(Items(parse_this))), parse_this)
  ELSE SentenceStore(parse_this, parse_this)

RECURSIVE ParseRaw(_, _, _)
RECURSIVE ParseElems(_, _, _, _, _)

\* Statements.parse
StatementsParse(parse_this, parsing_hooks, spaces) ==
  IF ~IsList(parse_this) THEN Raise("MisconfigurationError", parse_this)
  ELSE LET n == Len(parse_this.l)
           trailing == n > 0 /\ IsStr(parse_this.l[n]) /\ IsSpace(parse_this.l[n].s)
           tw == IF trailing THEN <<parse_this.l[n].s>> ELSE <<>>
           elems == IF trailing THEN SubSeq(parse_this.l, 1, n - 1) ELSE parse_this.l
           r == ParseElems(elems, 1, parsing_hooks, spaces, <<>>)
           after == IF trailing THEN r.raws \o <<parse_this.l[n]>> ELSE r.raws
       IN IF r.err # "" THEN Raise(r.err, Lst(after))
          ELSE Ok(StatementsNode(r.nodes, tw), Lst(after))

\* Block.parse
BlockParse(parse_this, parsing_hooks, spaces) ==
  IF ~BlockShouldParse(parse_this) THEN Raise("MisconfigurationError", parse_this)
  ELSE LET first == IF spaces THEN Lst(parse_this.l[1].l \o <<Str(SPACE)>>)
                    ELSE parse_this.l[1]
           n == SentenceParse(first, spaces)
       IN IF n.err # "" THEN Raise(n.err, Lst(<<n.raw, parse_this.l[2]>>))
          ELSE LET c == StatementsParse(parse_this.l[2], parsing_hooks, spaces)
               IN IF c.err # "" THEN Raise(c.err, Lst(<<n.raw, c.raw>>))
                  ELSE Ok(BlockNode(n.node, c.node), Lst(<<n.raw, c.raw>>))

Parse(type_, lists_, parsing_hooks, spaces) ==
  CASE type_ = "Block" -> BlockParse(lists_, parsing_hooks, spaces)
    [] type_ = "Sentence" -> SentenceParse(lists_, spaces)
    [] type_ = "Statements" -> StatementsParse(lists_, parsing_hooks, spaces)

\* parse_raw
ParseRaw(lists_, parsing_hooks, spaces) ==
  LET type_ == ChooseParser(parsing_hooks, lists_)
  IN IF type_ = "none" THEN Raise("MisconfigurationError", lists_)
     ELSE Parse(type_, lists_, parsing_hooks, spaces)

\* The list comprehension of Statements.parse: the elements in order, stopping at
\* the first that raises; [err, nodes, raws]
ParseElems(elems, i, parsing_hooks, spaces, nodes) ==
  IF i > Len(elems) THEN [err |-> "", nodes |-> nodes, raws |-> elems]
  ELSE LET r == ParseRaw(elems[i], parsing_hooks, spaces)
           after == [elems EXCEPT ![i] = r.raw]
       IN IF r.err # "" THEN [err |-> r.err, nodes |-> <<>>, raws |-> after]
          ELSE ParseElems(after, i + 1, parsing_hooks, spaces, Append(nodes, r.node))

----------------------------------------------------------------------------
(* get_tabs, set_tabs *)

RECURSIVE GetTabs(_)
GetTabs(n) ==
  CASE n.t = "Sentence" ->
         IF ~IsSpace(n.toks[1]) THEN <<>> ELSE AfterLastNewline(n.toks[1])
    [] n.t = "Statements" ->
         IF Len(n.kids) > 0 THEN GetTabs(n.kids[1]) ELSE <<>>
    [] n.t = "Block" -> GetTabs(names(n))

\* What `self.context.parent` gives a Statements that sets its trailing
\* whitespace: no parent; a parent whose get_tabs() is v; or a parent Statements
\* whose first statement is this object, so that the parent's get_tabs() is this
\* object's own, read after its statements were set.
NoParent == [kind |-> "none", v |-> <<>>]

ParentTabs(v) == [kind |-> "tabs", v |-> v]

ParentIsSelf == [kind |-> "self", v |-> <<>>]

\* Sentence.set_tabs
SentenceSetTabs(n, tabs) ==
  IF IsSpace(n.toks[1]) THEN n
  ELSE [n EXCEPT !.toks = <<NEWLINE \o tabs>> \o n.toks]

\* The assignment that ends Statements.set_tabs
TrailingAfterSetTabs(n, par) ==
  IF par.kind = "none" THEN n.tw
  ELSE IF par.kind = "self" THEN <<NEWLINE \o GetTabs(n)>>
  ELSE <<NEWLINE \o par.v>>

RECURSIVE SetTabs(_, _, _)

\* Statements.set_tabs: the statements in list order, then the trailing whitespace
StatementsSetTabs(n, tabs, par) ==
  LET first == IF Len(n.kids) > 0 THEN SetTabs(n.kids[1], tabs, ParentIsSelf) ELSE NoNode
      kids == [i \in 1..Len(n.kids) |->
                 IF i = 1 THEN first
                 ELSE SetTabs(n.kids[i], tabs, ParentTabs(GetTabs(first)))]
      set == [n EXCEPT !.kids = kids]
  IN [set EXCEPT !.tw = TrailingAfterSetTabs(set, par)]

\* Block.set_tabs that reads the header's indentation before setting it
BlockSetTabsStale(n, tabs) ==
  LET nm == SentenceSetTabs(names(n), tabs)
      ct == StatementsSetTabs(contents(n), tabs \o FOUR_SPACES, ParentTabs(GetTabs(names(n))))
  IN BlockNode(nm, ct)

\* Block.set_tabs that gives the body the header's indentation
BlockSetTabsFlat(n, tabs) ==
  LET nm == SentenceSetTabs(names(n), tabs)
      ct == StatementsSetTabs(contents(n), tabs, ParentTabs(GetTabs(nm)))
  IN BlockNode(nm, ct)

\* Block.set_tabs
BlockSetTabs(n, tabs) ==
  LET nm == SentenceSetTabs(names(n), tabs)
      ct == StatementsSetTabs(contents(n), tabs \o FOUR_SPACES, ParentTabs(GetTabs(nm)))
  IN BlockNode(nm, ct)

SetTabs(n, tabs, par) ==
  CASE n.t = "Sentence" -> SentenceSetTabs(n, tabs)
    [] n.t = "Statements" -> StatementsSetTabs(n, tabs, par)
    [] n.t = "Block" -> BlockSetTabs(n, tabs)

----------------------------------------------------------------------------
(* The objects of a tree, named by their path from the root: the indices into  *)
(* _data (a Block's _data is [names, contents])                                *)

RECURSIVE NodeAt(_, _)
NodeAt(n, p) == IF p = <<>> THEN n ELSE NodeAt(n.kids[Head(p)], Tail(p))

RECURSIVE ReplaceAt(_, _, _)
ReplaceAt(n, p, m) ==
  IF p = <<>> THEN m
  ELSE [n EXCEPT !.kids[Head(p)] = ReplaceAt(n.kids[Head(p)], Tail(p), m)]

RECURSIVE Paths(_)
Paths(n) ==
  {<<>>} \cup UNION {{<<i>> \o p : p \in Paths(n.kids[i])} : i \in 1..Len(n.kids)}

Front(p) == SubSeq(p, 1, Len(p) - 1)

\* child_context(): the parent an object's context holds, as set_tabs reads it
ContextParent(root, p) ==
  IF p = <<>> THEN NoParent
  ELSE LET parent == NodeAt(root, Front(p))
       IN IF parent.t = "Statements" /\ p[Len(p)] = 1 THEN ParentIsSelf
          ELSE ParentTabs(GetTabs(parent))

\* Sentence.parse stores the caller's list itself when add_spaces is unset
\* (self._data = parse_this), so an insert by set_tabs shows in the caller's raw
\* lists: the raw value as the tree's Sentences now hold it.
RECURSIVE Aliased(_, _)
Aliased(r, n) ==
  CASE n.t = "Sentence" -> Lst([i \in 1..Len(n.toks) |-> Str(n.toks[i])])
    [] n.t = "Statements" ->
         Lst([i \in 1..Len(r.l) |->
                IF i <= Len(n.kids) THEN Aliased(r.l[i], n.kids[i]) ELSE r.l[i]])
    [] n.t = "Block" -> Lst(<<Aliased(r.l[1], names(n)), Aliased(r.l[2], contents(n))>>)

----------------------------------------------------------------------------
(* words, dump, iterate *)

RECURSIVE WordsOf(_)
WordsOf(toks) ==
  IF toks = <<>> THEN <<>>
  ELSE IF IsSpace(Head(toks)) THEN WordsOf(Tail(toks))
  ELSE <<StripQuotes(Head(toks))>> \o WordsOf(Tail(toks))

\* Sentence.words
Words(n) == WordsOf(n.toks)

StrList(toks) == Lst([i \in 1..Len(toks) |-> Str(toks[i])])

\* Sentence.dump
SentenceDump(n, include_spaces) ==
  IF ~include_spaces THEN StrList(Words(n)) ELSE StrList(n.toks)

RECURSIVE Dump(_, _)

\* WithLists.dump
WithListsDump(n, include_spaces) ==
  [i \in 1..Len(n.kids) |-> Dump(n.kids[i], include_spaces)]

\* Statements.dump that forgets the trailing whitespace
StatementsDumpNoTrailing(n, include_spaces) == Lst(WithListsDump(n, include_spaces))

\* Statements.dump
StatementsDump(n, include_spaces) ==
  LET data == WithListsDump(n, include_spaces)
  IN IF include_spaces /\ n.tw # <<>> THEN Lst(data \o <<Str(n.tw[1])>>)
     ELSE Lst(data)

Dump(n, include_spaces) ==
  CASE n.t = "Sentence" -> SentenceDump(n, include_spaces)
    [] n.t = "Statements" -> StatementsDump(n, include_spaces)
    [] n.t = "Block" -> Lst(WithListsDump(n, include_spaces))

\* The callables the model passes as `match`; "None" is no callable
MatchFns == {"None", "is_block", "starts_spaced"}

Matches(match, n) ==
  CASE match = "None" -> TRUE
    [] match = "is_block" -> n.t = "Block"
    [] match = "starts_spaced" -> GetTabs(n) # <<>>

RECURSIVE Iterate(_, _, _, _)
RECURSIVE IterateAll(_, _, _, _, _)

\* Sentence.iterate
SentenceIterate(n, p, match) == IF Matches(match, n) THEN <<p>> ELSE <<>>

\* Statements.iterate
StatementsIterate(n, p, expanded, match) == IterateAll(n, p, 1, expanded, match)

\* Block.iterate that does not enter a Block that fails match
BlockIteratePruned(n, p, expanded, match) ==
  IF ~Matches(match, n) THEN <<>>
  ELSE <<p>> \o (IF expanded THEN Iterate(contents(n), p \o <<2>>, expanded, match) ELSE <<>>)

\* Block.iterate
BlockIterate(n, p, expanded, match) ==
  (IF Matches(match, n) THEN <<p>> ELSE <<>>)
    \o (IF expanded THEN Iterate(contents(n), p \o <<2>>, expanded, match) ELSE <<>>)

\* The objects yielded, in order, each named by its path; n is the object at p
Iterate(n, p, expanded, match) ==
  CASE n.t = "Sentence" -> SentenceIterate(n, p, match)
    [] n.t = "Statements" -> StatementsIterate(n, p, expanded, match)
    [] n.t = "Block" -> BlockIterate(n, p, expanded, match)

IterateAll(n, p, i, expanded, match) ==
  IF i > Len(n.kids) THEN <<>>
  ELSE Iterate(n.kids[i], p \o <<i>>, expanded, match)
         \o IterateAll(n, p, i + 1, expanded, match)

----------------------------------------------------------------------------
(* _is_comment, _is_certbot_comment: [err, val] *)

Returns(v) == [err |-> "", val |-> v]

Throws(e) == [err |-> e, val |-> FALSE]

IsComment(parsed_obj) ==
  IF parsed_obj.t # "Sentence" THEN Returns(FALSE)
  ELSE IF Words(parsed_obj) = <<>> THEN Throws("IndexError")
  ELSE Returns(Words(parsed_obj)[1] = <<"#">>)

IsCertbotComment(parsed_obj) ==
  LET c == IsComment(parsed_obj)
      words == Words(parsed_obj)
  IN IF c.err # "" THEN c
     ELSE IF ~c.val THEN Returns(FALSE)
     ELSE IF Len(words) # Len(COMMENT_BLOCK) THEN Returns(FALSE)
     ELSE Returns(\A i \in 1..Len(words) : words[i] = COMMENT_BLOCK[i])

----------------------------------------------------------------------------
(* Bounds and inputs *)

\* set_tabs calls in one behaviour
MaxSetTabs == 2

\* Elements (strings, lists and other values, at any depth) of an arbitrary raw list
MaxSize == 4

\* Statements (Sentences and Blocks, at any depth) of a generated statement list
MaxStmts == 2

\* Blocks nested in one another in the configurations set_tabs is called on
MaxDepth == 2

\* Tokens of a Sentence given to the spacing step
MaxSentLen == 4

WORD == <<"a">>

INDENT == <<"\n", " ">>

\* The indentations passed to set_tabs
TabChoices == {<<" ", " ">>, <<"\t">>}

Atoms == {Str(WORD), Str(NEWLINE), Int42}

\* The sequences of raw values of total size n: each element counts 1, a list
\* also counts its own elements.
RECURSIVE SeqsOfSize(_)
SeqsOfSize(n) ==
  IF n = 0 THEN {<<>>}
  ELSE UNION {
         {<<h>> \o t : h \in (IF k = 0 THEN Atoms ELSE {}) \cup {Lst(e) : e \in SeqsOfSize(k)},
                       t \in SeqsOfSize(n - 1 - k)}
         : k \in 0..(n - 1)}

\* Every raw value of at most n elements: also the ones no parser accepts
ArbitraryRaw(n) == Atoms \cup UNION {{Lst(e) : e \in SeqsOfSize(m)} : m \in 0..n}

SentenceForms == {<<Str(WORD)>>, <<Str(INDENT), Str(WORD)>>}

TrailingForms == {<<>>, <<Str(NEWLINE)>>}

\* The statement lists of n statements in all: a statement is a Sentence, or a
\* Block [names, body] whose body is a statement list with or without a trailing
\* whitespace token.
RECURSIVE StmtsOfSize(_)
StmtsOfSize(n) ==
  IF n = 0 THEN {<<>>}
  ELSE UNION {
         {<<h>> \o t :
            h \in (IF k = 0 THEN {Lst(f) : f \in SentenceForms} ELSE {})
                    \cup {Lst(<<Lst(f), Lst(b \o w)>>) :
                            f \in SentenceForms, b \in StmtsOfSize(k), w \in TrailingForms},
            t \in StmtsOfSize(n - 1 - k)}
         : k \in 0..(n - 1)}

\* A generated configuration: a statement list with or without trailing
\* whitespace, or one statement alone.
WellFormedRaw ==
  UNION {{Lst(b \o w) : b \in StmtsOfSize(n), w \in TrailingForms} \cup
         (IF n > 0 THEN {b[1] : b \in {c \in StmtsOfSize(n) : Len(c) = 1}} ELSE {})
         : n \in 0..MaxStmts}

\* The forms of one Block: header and inner Sentence each with or without
\* leading whitespace, the body with or without trailing whitespace; four
\* combinations in which every two of the three choices meet in all four ways.
BlockForms ==
  {<<f, g, w>> \in SentenceForms \X SentenceForms \X TrailingForms :
     (w # <<>>) <=> (f # g)}

\* Blocks nested d deep: each holds one Sentence and, above the innermost, the
\* next Block.
RECURSIVE NestedBlocks(_)
NestedBlocks(d) ==
  IF d = 0 THEN {}
  ELSE {Lst(<<Lst(c[1]), Lst(<<Lst(c[2])>> \o b \o c[3])>>) :
          c \in BlockForms,
          b \in (IF d = 1 THEN {<<>>} ELSE {<<x>> : x \in NestedBlocks(d - 1)})}

\* What set_tabs is called on: a nest of Blocks, or a top-level statement list
\* (whose context has no parent) holding one Block
TabsRaw ==
  UNION {NestedBlocks(d) : d \in 1..MaxDepth}
    \cup {Lst(<<x>> \o w) : x \in NestedBlocks(1), w \in TrailingForms}

\* The non-empty lists of tokens the spacing step is given
TOKENS == {WORD, SPACE, INDENT, <<>>}

RECURSIVE TokenLists(_)
TokenLists(n) ==
  IF n = 0 THEN {<<>>}
  ELSE {<<>>} \cup {<<Str(t)>> \o r : t \in TOKENS, r \in TokenLists(n - 1)}

SentenceRaw == {Lst(l) : l \in TokenLists(MaxSentLen) \ {<<>>}}

Toks(words) == Lst([i \in 1..Len(words) |-> Str(words[i])])

SERVER == <<"s", "e", "r", "v", "e", "r">>

LISTEN == <<"l", "i", "s", "t", "e", "n">>

OTHERWORD == <<"o", "t", "h", "e", "r">>

\* Configurations written out: a server block, comments and near-comments
ExampleBlock ==
  Lst(<<Toks(<<SERVER, SPACE>>),
        Lst(<<Toks(<<NEWLINE \o FOUR_SPACES, LISTEN, SPACE, <<"8", "0">>, <<";">>>>),
              Str(NEWLINE)>>)>>)

ExampleComments ==
  {Toks(COMMENT_BLOCK),
   Toks(<<FOUR_SPACES>> \o COMMENT_BLOCK),
   Toks(<< <<"\"", "#", "\"">>, <<"'">> \o COMMENT \o <<"'">> >>),
   Toks(<< <<"#">>, OTHERWORD >>),
   Toks(<< <<"n", "o", "t">>, <<"#">> >>),
   Toks(<< <<"#">>, COMMENT, OTHERWORD >>),
   Toks(<< <<"#">> >>),
   Toks(<< NEWLINE >>),
   Toks(<< SPACE, NEWLINE >>),
   Lst(<<Toks(<<SERVER>>), Lst(<<Toks(<<NEWLINE>> \o COMMENT_BLOCK), Toks(<<SPACE>>)>>)>>)}

Examples == {ExampleBlock} \cup ExampleComments

HookOrders ==
  {h \in [1..3 -> {"Block", "Sentence", "Statements"}] : \A i, j \in 1..3 : h[i] = h[j] => i = j}

----------------------------------------------------------------------------
(* The state machine: one parse_raw call on a raw value, then calls on the    *)
(* returned object and the objects under it.  orig is the raw value as the    *)
(* caller built it and raw the same lists as the calls leave them; tabbed is   *)
(* the set of Blocks set_tabs was called on; out is the last call's result.    *)

NoOut == [op |-> "none", path |-> <<>>, flag |-> FALSE, match |-> "None",
          dumped |-> Lst(<<>>), yielded |-> <<>>, err |-> ""]

InitWith(inputs, spacings, orders) ==
  /\ orig \in inputs
  /\ raw = orig
  /\ add_spaces \in spacings
  /\ hooks \in orders
  /\ pc = "start"
  /\ chosen = ""
  /\ tree = NoNode
  /\ err = ""
  /\ ntabs = 0
  /\ tabbed = {}
  /\ out = NoOut

\* parse_raw(raw, ParseContext(None, hooks), add_spaces)
ParseRawCall ==
  /\ pc = "start"
  /\ LET type_ == ChooseParser(hooks, raw)
         r == ParseRaw(raw, hooks, add_spaces)
     IN /\ chosen' = type_
        /\ pc' = IF r.err = "" THEN "parsed" ELSE "failed"
        /\ tree' = r.node
        /\ err' = r.err
        /\ raw' = r.raw
  /\ UNCHANGED <<orig, add_spaces, hooks, ntabs, tabbed, out>>

\* obj.set_tabs(tabs), obj the object at path p
SetTabsCall(p, tabs) ==
  /\ pc = "parsed"
  /\ ntabs < MaxSetTabs
  /\ ntabs' = ntabs + 1
  /\ out' = [NoOut EXCEPT !.op = "set_tabs"]
  /\ LET obj == NodeAt(tree, p)
         after == ReplaceAt(tree, p, SetTabs(obj, tabs, ContextParent(tree, p)))
     IN /\ tabbed' = IF obj.t = "Block" THEN tabbed \cup {p} ELSE tabbed
        /\ tree' = after
        /\ raw' = IF add_spaces THEN raw ELSE Aliased(raw, after)
  /\ UNCHANGED <<orig, add_spaces, hooks, pc, chosen, err>>

\* tree.dump(include_spaces)
DumpCall(include_spaces) ==
  /\ pc = "parsed"
  /\ out' = [NoOut EXCEPT !.op = "dump", !.flag = include_spaces,
                          !.dumped = Dump(tree, include_spaces)]
  /\ UNCHANGED <<orig, raw, add_spaces, hooks, pc, chosen, tree, err, ntabs, tabbed>>

\* list(tree.iterate(expanded, match))
IterateCall(expanded, match) ==
  /\ pc = "parsed"
  /\ out' = [NoOut EXCEPT !.op = "iterate", !.flag = expanded, !.match = match,
                          !.yielded = Iterate(tree, <<>>, expanded, match)]
  /\ UNCHANGED <<orig, raw, add_spaces, hooks, pc, chosen, tree, err, ntabs, tabbed>>

\* _is_certbot_comment(obj), obj the object at path p
IsCertbotCommentCall(p) ==
  /\ pc = "parsed"
  /\ LET r == IsCertbotComment(NodeAt(tree, p))
     IN out' = [NoOut EXCEPT !.op = "is_certbot_comment", !.path = p,
                             !.flag = r.val, !.err = r.err]
  /\ UNCHANGED <<orig, raw, add_spaces, hooks, pc, chosen, tree, err, ntabs, tabbed>>

\* Parsing and dumping, of every raw value
Init == InitWith(ArbitraryRaw(MaxSize) \cup WellFormedRaw \cup TabsRaw \cup Examples, BOOLEAN,
                 {DEFAULT_PARSING_HOOKS})

Next ==
  \/ ParseRawCall
  \/ \E include_spaces \in BOOLEAN : DumpCall(include_spaces)

Spec == Init /\ [][Next]_vars

\* Parsing under every order of the parsing hooks
InitHooks == InitWith(ArbitraryRaw(MaxSize), BOOLEAN, HookOrders)

NextHooks == ParseRawCall

SpecHooks == InitHooks /\ [][NextHooks]_vars

\* The spacing step on a Sentence's tokens
InitSpacing == InitWith(SentenceRaw, BOOLEAN, {DEFAULT_PARSING_HOOKS})

SpecSpacing == InitSpacing /\ [][Next]_vars

\* The read-only calls on a parsed configuration
InitQueries == InitWith(WellFormedRaw \cup TabsRaw \cup Examples, {FALSE}, {DEFAULT_PARSING_HOOKS})

NextQueries ==
  \/ ParseRawCall
  \/ \E expanded \in BOOLEAN, match \in MatchFns : IterateCall(expanded, match)
  \/ \E p \in Paths(tree) : IsCertbotCommentCall(p)

SpecQueries == InitQueries /\ [][NextQueries]_vars

\* set_tabs on the objects of a parsed configuration
InitTabs == InitWith(TabsRaw \cup {ExampleBlock}, BOOLEAN, {DEFAULT_PARSING_HOOKS})

NextTabs ==
  \/ ParseRawCall
  \/ \E p \in Paths(tree), tabs \in TabChoices : SetTabsCall(p, tabs)

SpecTabs == InitTabs /\ [][NextTabs]_vars

----------------------------------------------------------------------------
(* Properties *)

IsPrefix(p, q) == Len(p) <= Len(q) /\ SubSeq(q, 1, Len(p)) = p

\* Document order of two objects: an object before the objects under it, and
\* before its later siblings and what is under them
Precedes(p, q) ==
  \/ Len(p) < Len(q) /\ IsPrefix(p, q)
  \/ \E i \in 1..Len(p) :
       /\ i <= Len(q)
       /\ SubSeq(p, 1, i - 1) = SubSeq(q, 1, i - 1)
       /\ p[i] < q[i]

\* C1: dumping a freshly parsed object with whitespace included gives back the raw
\* value that was parsed (add_spaces unset, no call between the parse and the dump).
C1_RoundTrip ==
  (out.op = "dump" /\ out.flag /\ ~add_spaces /\ ntabs = 0) => out.dumped = orig

\* A Block that holds a Block, its body ending in whitespace, parsed and dumped
C1_Witness ==
  /\ out.op = "dump" /\ out.flag /\ ~add_spaces /\ ntabs = 0
  /\ tree.t = "Block"
  /\ contents(tree).tw # <<>>
  /\ \E i \in 1..Len(contents(tree).kids) : contents(tree).kids[i].t = "Block"
  /\ out.dumped = orig

RECURSIVE Populated(_)
Populated(n) ==
  CASE n.t = "Sentence" -> Len(n.toks) > 0
    [] n.t = "Statements" -> \A i \in 1..Len(n.kids) : Populated(n.kids[i])
    [] n.t = "Block" ->
         /\ Len(n.kids) = 2
         /\ names(n).t = "Sentence" /\ Populated(names(n))
         /\ contents(n).t = "Statements" /\ Populated(contents(n))
    [] OTHER -> FALSE

\* A value that is neither a string nor a list, at any depth
RECURSIVE HasForeign(_)
HasForeign(v) ==
  \/ ~IsStr(v) /\ ~IsList(v)
  \/ IsList(v) /\ \E i \in 1..Len(v.l) : HasForeign(v.l[i])

\* C6: parse_raw returns a populated object or raises MisconfigurationError and
\* nothing else; it raises when the raw value is not a list and when a value that
\* is neither a string nor a list lies anywhere in it.
C6_StructuralErrors ==
  pc # "start" =>
    /\ pc = "failed" => err = "MisconfigurationError" /\ tree = NoNode
    /\ pc = "parsed" => err = "" /\ Populated(tree)
    /\ ~IsList(orig) => pc = "failed"
    /\ HasForeign(orig) => pc = "failed"

\* parse_raw(["a", 42], add_spaces=True) has raised
C6_Witness ==
  /\ pc = "failed"
  /\ add_spaces
  /\ orig = Lst(<<Str(WORD), Int42>>)
  /\ err = "MisconfigurationError"

\* C9: parse_raw leaves the caller's raw value as it was, whether it returns or
\* raises.
C9_InputUnchanged == (pc \in {"parsed", "failed"} /\ ntabs = 0) => raw = orig

\* A statement: a non-empty list of strings, or a pair of one and a list of
\* statements that may end in a whitespace string
RECURSIVE IsStatement(_)
RECURSIVE IsStatementList(_)
IsStatement(v) ==
  \/ /\ IsList(v) /\ Len(v.l) > 0
     /\ \A i \in 1..Len(v.l) : IsStr(v.l[i])
  \/ /\ IsList(v) /\ Len(v.l) = 2
     /\ IsList(v.l[1]) /\ Len(v.l[1].l) > 0
     /\ \A i \in 1..Len(v.l[1].l) : IsStr(v.l[1].l[i])
     /\ IsStatementList(v.l[2])

\* The elements of a list but for a whitespace string that ends it
Statements_(v) ==
  LET n == Len(v.l)
  IN IF n > 0 /\ IsStr(v.l[n]) /\ IsSpace(v.l[n].s) THEN SubSeq(v.l, 1, n - 1) ELSE v.l

IsStatementList(v) ==
  /\ IsList(v)
  /\ \A i \in 1..Len(Statements_(v)) : IsStatement(Statements_(v)[i])

\* C10: a list of n statements, with or without a trailing whitespace string,
\* parses under the default order as a Statements of n children, the i-th a
\* Sentence or a Block as the i-th statement is.  Stated for n >= 1: a lone
\* whitespace string, the case n = 0, is a Sentence's list of strings as well.
C10_StatementList ==
  (/\ pc # "start" /\ hooks = DEFAULT_PARSING_HOOKS
   /\ IsStatementList(orig) /\ Len(Statements_(orig)) >= 1) =>
    /\ pc = "parsed"
    /\ tree.t = "Statements"
    /\ Len(tree.kids) = Len(Statements_(orig))
    /\ \A i \in 1..Len(tree.kids) :
         tree.kids[i].t =
           (IF \A j \in 1..Len(orig.l[i].l) : IsStr(orig.l[i].l[j])
            THEN "Sentence" ELSE "Block")

\* The tokens of a Sentence with one " " between every two neighbours that are
\* both not whitespace, read left to right
RECURSIVE Spaced(_)
Spaced(l) ==
  IF Len(l) <= 1 THEN l
  ELSE IF ~IsSpace(l[1].s) /\ ~IsSpace(l[2].s)
       THEN <<l[1], Str(SPACE)>> \o Spaced(Tail(l))
       ELSE <<l[1]>> \o Spaced(Tail(l))

NoNeighbours(l) == \A i \in 1..(Len(l) - 1) : IsSpace(l[i].s) \/ IsSpace(l[i+1].s)

\* C4: parsed with add_spaces, a non-empty list of strings becomes a Sentence that
\* dumps as the list with one " " between every two neighbouring non-whitespace
\* strings and nothing else changed; a list with no such neighbours dumps as it
\* is, and so does the dump parsed with add_spaces again.
C4_Spacing ==
  (out.op = "dump" /\ out.flag /\ add_spaces /\ SentenceShouldParse(orig)) =>
    /\ tree.t = "Sentence"
    /\ out.dumped = Lst(Spaced(orig.l))
    /\ NoNeighbours(out.dumped.l)
    /\ NoNeighbours(orig.l) => out.dumped = orig
    /\ LET again == ParseRaw(out.dumped, hooks, TRUE)
       IN again.err = "" /\ Dump(again.node, TRUE) = out.dumped

\* ["a", "a"] parsed with add_spaces and dumped as ["a", " ", "a"]
C4_Witness ==
  /\ out.op = "dump" /\ out.flag /\ add_spaces
  /\ orig = Lst(<<Str(WORD), Str(WORD)>>)
  /\ out.dumped = Lst(<<Str(WORD), Str(SPACE), Str(WORD)>>)

\* What iterate may yield: a Sentence or a Block that is not the names of a
\* Block and, unless expanded, does not lie in a Block
Visible(root, p, expanded) ==
  /\ NodeAt(root, p).t \in {"Sentence", "Block"}
  /\ p # <<>> => ~(NodeAt(root, Front(p)).t = "Block" /\ p[Len(p)] = 1)
  /\ expanded \/ \A k \in 0..(Len(p) - 1) : NodeAt(root, SubSeq(p, 1, k)).t # "Block"

\* C5: iterate yields, in document order and once each, the Sentences and Blocks
\* that satisfy match, those inside a Block only when expanded; never a
\* Statements, never the names of a Block; a Block that fails match is left out
\* and its body still gone through when expanded.
C5_Traversal ==
  out.op = "iterate" =>
    /\ \A i, j \in 1..Len(out.yielded) : i < j => Precedes(out.yielded[i], out.yielded[j])
    /\ {out.yielded[i] : i \in 1..Len(out.yielded)} =
         {p \in Paths(tree) : Visible(tree, p, out.flag) /\ Matches(out.match, NodeAt(tree, p))}

\* A Block whose header fails match and whose inner Sentence passes it: expanded,
\* the Sentence alone is yielded; and a Block yielded before its inner Sentence
C5_Witness ==
  /\ out.op = "iterate" /\ out.flag
  /\ tree.t = "Block"
  /\ \/ out.match = "starts_spaced" /\ out.yielded = << <<2, 1>> >>
     \/ out.match = "None" /\ out.yielded = << <<>>, <<2, 1>> >>

\* C7: _is_certbot_comment returns, without raising, whether the object is a
\* Sentence whose words are "#" and " managed by Certbot".
C7_MarkerTotal ==
  out.op = "is_certbot_comment" =>
    LET obj == NodeAt(tree, out.path)
    IN /\ out.err = ""
       /\ out.flag = (obj.t = "Sentence" /\ Words(obj) = COMMENT_BLOCK)

\* The Blocks at or under a Block set_tabs was called on
Tabbed == {q \in Paths(tree) : NodeAt(tree, q).t = "Block" /\ \E p \in tabbed : IsPrefix(p, q)}

\* The whitespace string that ends a raw list, as _trailing_whitespace holds it
TrailingOf(v) ==
  LET n == Len(v.l)
  IN IF n > 0 /\ IsStr(v.l[n]) /\ IsSpace(v.l[n].s) THEN <<v.l[n].s>> ELSE <<>>

\* C8: once set_tabs was called on a Block, the body of that Block and of every
\* Block in it ends in a newline followed by that Block's get_tabs(), whatever
\* set_tabs calls follow; a Statements without a parent keeps its trailing
\* whitespace.
C8_ClosingBrace ==
  pc = "parsed" =>
    /\ \A q \in Tabbed :
         contents(NodeAt(tree, q)).tw = <<NEWLINE \o GetTabs(NodeAt(tree, q))>>
    /\ tree.t = "Statements" => tree.tw = TrailingOf(orig)

\* Two set_tabs calls, one on a Block that holds a Block whose body ends in a
\* newline and the inner Block's indentation
C8_Witness ==
  /\ pc = "parsed" /\ ntabs = 2
  /\ \E p \in tabbed, q \in Tabbed :
       /\ p # q
       /\ GetTabs(NodeAt(tree, q)) # <<>>
       /\ contents(NodeAt(tree, q)).tw = <<NEWLINE \o GetTabs(NodeAt(tree, q))>>

\* Whether a statement begins with a whitespace token (a Block: its header)
StartsSpaced(n) == IsSpace((IF n.t = "Block" THEN names(n) ELSE n).toks[1])

\* C2 as stated: after set_tabs(t) on a Block its header's indentation is t and
\* the indentation of every statement of its body is t and four spaces.
C2_Indentation ==
  [][\A p \in Paths(tree), t \in TabChoices :
       (NodeAt(tree, p).t = "Block" /\ SetTabsCall(p, t)) =>
         LET b == NodeAt(tree', p)
         IN /\ GetTabs(names(b)) = t
            /\ \A i \in 1..Len(contents(b).kids) :
                 GetTabs(contents(b).kids[i]) = t \o FOUR_SPACES]_vars

\* C2 amended: after set_tabs(t) on a Block, the header's indentation is t when
\* the header did not begin with whitespace and is as before when it did; a
\* statement of the body has indentation t and four spaces when it did not begin
\* with whitespace and its indentation of before when it did.
C2_IndentationUnlessSpaced ==
  [][\A p \in Paths(tree), t \in TabChoices :
       (NodeAt(tree, p).t = "Block" /\ SetTabsCall(p, t)) =>
         LET a == NodeAt(tree, p)
             b == NodeAt(tree', p)
         IN /\ GetTabs(names(b)) = IF StartsSpaced(names(a)) THEN GetTabs(names(a)) ELSE t
            /\ Len(contents(b).kids) = Len(contents(a).kids)
            /\ \A i \in 1..Len(contents(a).kids) :
                 GetTabs(contents(b).kids[i]) =
                   IF StartsSpaced(contents(a).kids[i])
                   THEN GetTabs(contents(a).kids[i])
                   ELSE t \o FOUR_SPACES]_vars

\* set_tabs("  ") on the server block: the header at two spaces, the listen
\* statement, which began with "\n    ", still at four
C2_Witness ==
  /\ orig = ExampleBlock
  /\ out.op = "set_tabs" /\ ntabs = 1 /\ tabbed = {<<>>}
  /\ GetTabs(names(tree)) = <<" ", " ">>
  /\ GetTabs(contents(tree).kids[1]) = FOUR_SPACES

====
